---- MODULE Spec2Model ----
(***************************************************************************)
(* Model of the Tg Cloud backend (src/main.py): the `items` and `users`    *)
(* tables of the hosted store and the handlers that read and write them.   *)
(*                                                                         *)
(* Every store call (`supabase.table(..)...execute()`) is one atomic       *)
(* statement.  Handlers that issue a single write are one action; the      *)
(* handlers that issue several statements (delete_item, recursive_del,     *)
(* copy_folder_recursive) are modelled statement by statement, so that     *)
(* requests served by other workers against the same store interleave      *)
(* between their statements (the code takes no lock and opens no           *)
(* transaction).  RaceSpec interleaves them; the other specifications run  *)
(* the same steps with no other request in between.                        *)
(***************************************************************************)
EXTENDS Integers, Sequences, FiniteSets, TLC

VARIABLES
    items,      \* the items table: id -> row
    nextId,     \* number of the next row to be created (ids and created_at)
    users,      \* the users table: user id -> row
    dreq,       \* the delete_item request in flight
    rstack,     \* the call stack of the recursive_del in flight
    cstack,     \* the call stack of the copy_folder_recursive in flight
    resp,       \* the answer of the last request, "none" while it is in flight
    outbox,     \* the chat messages the last request tried to send, in order
    sstack,     \* the call stack of the send_folder_contents in flight
    pre         \* history: the items table when the request in flight began

vars == <<items, nextId, users, dreq, rstack, cstack, resp, outbox, sstack, pre>>

---------------------------------------------------------------------------
(* Bounds and value sets *)

\* the rows created by requests other than the copy in the specification of the copy
SourceItems == 3

\* the rows the store holds at most: room for the copy of a tree of SourceItems rows
MaxItems == 2 * SourceItems

\* the rows created in the specification of the tree requests and the deletes
TreeItems == 3

\* the rows created in the specification of interleaved requests
RaceItems == 2

\* the rows created in the specification of the access checks
AccessItems == 2

\* the rows created by the tree requests in the specification of all writing handlers
CatalogItems == 2

\* the rows created in the specification of the lists
ListItems == 2

\* the rows created in the specification of the ingestion
IngestItems == 2

\* the rows created in the specification of the distribution
SendItems == 3

\* the rows created in the specification of the access gate
GateItems == 2
RecurseItems == 2

\* Python's None / SQL NULL
None == "None"

ADMIN_USERNAME == "astermaneiro"

UserIds == {1, 2}
UserNames == {ADMIN_USERNAME, "bob"}
Handles == {"h1", "h2"}

\* ids are opaque unique strings generated by the store; the n-th row created gets IdOf(n)
IdOf(n) == "id" \o ToString(n)

AllocatedIds == {IdOf(n) : n \in 1..(nextId - 1)}

\* the byte count the provider reports for a file handle
SizeOf(h) == IF h = "h1" THEN 1 ELSE 2

\* the size column of a row inserted without one (NULL, which the code reads as 0)
NoSize == 0

Idle == [pc |-> "idle", id |-> None, folder |-> FALSE]
NoSnap == <<>>

---------------------------------------------------------------------------
(* The store *)

Row(u, name, type, file_id, size, parent, n) ==
    [user_id |-> u, name |-> name, type |-> type, file_id |-> file_id,
     size |-> size, parent_id |-> parent, created_at |-> n]

\* supabase.table("items").insert(row).execute() with a fresh id
InsertAs(tbl, n, row) == [i \in DOMAIN tbl \cup {IdOf(n)} |-> IF i = IdOf(n) THEN row ELSE tbl[i]]

\* .delete().eq("id", id)
DeleteId(tbl, id) == [i \in DOMAIN tbl \ {id} |-> tbl[i]]

\* variant: the delete cascades to the rows under the deleted rows
DeleteOwnedByCascade(tbl, u) ==
    [i \in {j \in DOMAIN tbl :
                /\ tbl[j].user_id # u
                /\ ~(tbl[j].parent_id \in DOMAIN tbl /\ tbl[tbl[j].parent_id].user_id = u)} |-> tbl[i]]

\* .delete().eq("user_id", u)
DeleteOwnedBy(tbl, u) == [i \in {j \in DOMAIN tbl : tbl[j].user_id # u} |-> tbl[i]]

\* .update({"parent_id": p}).eq("id", id)
SetParent(tbl, id, p) ==
    [i \in DOMAIN tbl |-> IF i = id THEN [tbl[i] EXCEPT !.parent_id = p] ELSE tbl[i]]

\* variant: the update reaches only the children that are files
ReparentFileChildren(tbl, id) ==
    [i \in DOMAIN tbl |-> IF tbl[i].parent_id = id /\ tbl[i].type # "folder"
                          THEN [tbl[i] EXCEPT !.parent_id = None] ELSE tbl[i]]

\* .update({"parent_id": None}).eq("parent_id", id)
ReparentChildren(tbl, id) ==
    [i \in DOMAIN tbl |-> IF tbl[i].parent_id = id THEN [tbl[i] EXCEPT !.parent_id = None] ELSE tbl[i]]

\* variant: the update writes the whole row and leaves file_id empty
SetNameOnly(tbl, id, name) ==
    [i \in DOMAIN tbl |-> IF i = id THEN [tbl[i] EXCEPT !.name = name, !.file_id = None] ELSE tbl[i]]

\* .update({"name": name}).eq("id", id)
SetName(tbl, id, name) ==
    [i \in DOMAIN tbl |-> IF i = id THEN [tbl[i] EXCEPT !.name = name] ELSE tbl[i]]

\* .select(..).eq("parent_id", id)
ChildrenOf(tbl, id) == {i \in DOMAIN tbl : tbl[i].parent_id = id}

---------------------------------------------------------------------------
(* Access control *)

\* TRUE iff check_is_blocked(user_id) raises HTTPException(403, "USER_BLOCKED")
check_is_blocked(u) ==
    /\ u \in DOMAIN users
    /\ users[u].username # ADMIN_USERNAME
    /\ users[u].is_blocked

EmptyTable == [i \in {} |-> None]

Init ==
    /\ items = EmptyTable
    /\ nextId = 1
    /\ users = EmptyTable
    /\ dreq = Idle
    /\ rstack = <<>>
    /\ cstack = <<>>
    /\ resp = "none"
    /\ outbox = <<>>
    /\ sstack = <<>>
    /\ pre = NoSnap


---------------------------------------------------------------------------
(* Chat handlers *)

\* command_start: the upsert of the sender's row, {"id", "username"}; a new row gets
\* the column default is_blocked = false, an existing row keeps its flag.
\* `username` is message.from_user.username, or first_name or "User" when it is empty.
command_start(u, username) ==
    /\ users' = [v \in DOMAIN users \cup {u} |->
                    IF v = u
                    THEN [username |-> username,
                          is_blocked |-> IF u \in DOMAIN users THEN users[u].is_blocked ELSE FALSE]
                    ELSE users[v]]
    /\ resp' = "chat:start"
    /\ UNCHANGED <<items, nextId, dreq, rstack, cstack, pre, outbox, sstack>>

\* an attachment of a message; NoAttachment is the attribute being None
Attachment(h, n) == [file_id |-> h, file_name |-> n]
NoAttachment == Attachment(None, None)

\* The attachment handle_files picks: document, else photo, else video; an audio
\* message leaves file_id = None.
PickedFileId(msg) ==
    IF msg.document # NoAttachment THEN msg.document.file_id
    ELSE IF msg.photo # NoAttachment THEN msg.photo.file_id
    ELSE IF msg.video # NoAttachment THEN msg.video.file_id
    ELSE None

\* document.file_name or "doc"; f"img_{message.date}.jpg"; video.file_name or "video.mp4"
PickedFileName(msg) ==
    IF msg.document # NoAttachment
    THEN (IF msg.document.file_name # None THEN msg.document.file_name ELSE "doc")
    ELSE IF msg.photo # NoAttachment THEN "img_date.jpg"
    ELSE IF msg.video # NoAttachment
    THEN (IF msg.video.file_name # None THEN msg.video.file_name ELSE "video.mp4")
    ELSE "untitled"   \* the default name, never stored: file_id is None here

\* handle_files: a message of user u matching F.document | F.photo | F.video | F.audio
handle_files(u, msg) ==
    /\ UNCHANGED <<users, dreq, rstack, cstack, pre, outbox, sstack>>
    /\ IF check_is_blocked(u)
       THEN /\ resp' = "chat:blocked"
            /\ UNCHANGED <<items, nextId>>
       ELSE IF PickedFileId(msg) = None
       THEN /\ resp' = "chat:silent"
            /\ UNCHANGED <<items, nextId>>
       ELSE /\ nextId <= MaxItems
            /\ items' = InsertAs(items, nextId,
                            Row(u, PickedFileName(msg), "file", PickedFileId(msg),
                                SizeOf(PickedFileId(msg)), None, nextId))
            /\ nextId' = nextId + 1
            /\ resp' = "chat:saved"

\* the messages with one attachment, of a kind in K, a handle in H and a declared
\* file_name in NN (None: no declared name); a photo has no file_name
MessageOf(kind, a) ==
    [k \in {"document", "photo", "video", "audio"} |-> IF k = kind THEN a ELSE NoAttachment]

Messages(K, H, NN) ==
    {MessageOf(k, Attachment(h, IF k = "photo" THEN None ELSE n)) : k \in K, h \in H, n \in NN}

\* the attachment a message carries of each kind, when it carries one
AttachmentOf(kind) ==
    IF kind = "document" THEN Attachment("h1", "a")
    ELSE IF kind = "photo" THEN Attachment("h2", None)
    ELSE IF kind = "video" THEN Attachment("h3", None)
    ELSE Attachment("h4", "a")

AttachmentKinds == {"document", "photo", "video", "audio"}

\* the messages the filter F.document | F.photo | F.video | F.audio lets through:
\* at least one attachment, of any kinds
AnyMessages ==
    {[k \in AttachmentKinds |-> IF k \in K THEN AttachmentOf(k) ELSE NoAttachment] :
        K \in (SUBSET AttachmentKinds) \ {{}}}

---------------------------------------------------------------------------
(* HTTP handlers that issue one write *)

\* variant: only the literal "null" is taken for the root
RootOfNull(parent_id) == IF parent_id = "null" THEN None ELSE parent_id

\* if parent == "null" or parent == "": parent = None
RootOf(parent_id) == IF parent_id = "null" \/ parent_id = "" THEN None ELSE parent_id

\* create_folder: "null" and "" mean the root
create_folder(u, name, parent_id) ==
    /\ UNCHANGED <<users, dreq, rstack, cstack, pre, outbox, sstack>>
    /\ IF check_is_blocked(u)
       THEN /\ resp' = "403:USER_BLOCKED"
            /\ UNCHANGED <<items, nextId>>
       ELSE /\ nextId <= MaxItems
            /\ items' = InsertAs(items, nextId,
                            Row(u, name, "folder", None, NoSize, RootOf(parent_id), nextId))
            /\ nextId' = nextId + 1
            /\ resp' = "200:ok"

\* move_file: one unconditional update
move_file(file_id, folder_id) ==
    /\ items' = SetParent(items, file_id, folder_id)
    /\ resp' = "200:ok"
    /\ UNCHANGED <<nextId, users, dreq, rstack, cstack, pre, outbox, sstack>>

\* rename_item: one unconditional update
rename_item(item_id, new_name) ==
    /\ items' = SetName(items, item_id, new_name)
    /\ resp' = "200:ok"
    /\ UNCHANGED <<nextId, users, dreq, rstack, cstack, pre, outbox, sstack>>

\* delete_all_data
delete_all_data(u) ==
    /\ UNCHANGED <<nextId, users, dreq, rstack, cstack, pre, outbox, sstack>>
    /\ IF check_is_blocked(u)
       THEN /\ resp' = "403:USER_BLOCKED"
            /\ UNCHANGED items
       ELSE /\ items' = DeleteOwnedBy(items, u)
            /\ resp' = "200:ok"

---------------------------------------------------------------------------
(* delete_item, statement by statement *)

\* variant: the children are re-parented unless the select finds a file
delete_item_select_unless_file(item_id, snap) ==
    /\ dreq.pc = "idle"
    /\ LET folder == item_id \notin DOMAIN items \/ items[item_id].type = "folder"
       IN dreq' = [pc |-> IF folder THEN "update" ELSE "delete", id |-> item_id, folder |-> folder]
    /\ pre' = snap
    /\ resp' = "none"
    /\ UNCHANGED <<items, nextId, users, rstack, cstack, outbox, sstack>>

\* item = select("type").eq("id", item_id); `snap` is what the history variable records
delete_item_select(item_id, snap) ==
    /\ dreq.pc = "idle"
    /\ LET folder == item_id \in DOMAIN items /\ items[item_id].type = "folder"
       IN dreq' = [pc |-> IF folder THEN "update" ELSE "delete", id |-> item_id, folder |-> folder]
    /\ pre' = snap
    /\ resp' = "none"
    /\ UNCHANGED <<items, nextId, users, rstack, cstack, outbox, sstack>>

\* update({"parent_id": None}).eq("parent_id", item_id)
delete_item_update ==
    /\ dreq.pc = "update"
    /\ items' = ReparentChildren(items, dreq.id)
    /\ dreq' = [dreq EXCEPT !.pc = "delete"]
    /\ UNCHANGED <<nextId, users, rstack, cstack, resp, pre, outbox, sstack>>

\* delete().eq("id", item_id)
delete_item_delete ==
    /\ dreq.pc = "delete"
    /\ items' = DeleteId(items, dreq.id)
    /\ dreq' = [dreq EXCEPT !.pc = "return"]
    /\ UNCHANGED <<nextId, users, rstack, cstack, resp, pre, outbox, sstack>>

\* return {"status": "deleted"}
delete_item_return ==
    /\ dreq.pc = "return"
    /\ dreq' = Idle
    /\ resp' = "200:deleted"
    /\ pre' = NoSnap
    /\ UNCHANGED <<items, nextId, users, rstack, cstack, outbox, sstack>>

---------------------------------------------------------------------------
(* delete_folder_recursive_api / recursive_del, statement by statement *)

\* The interpreter's recursion limit.  It stands above the depth of every tree without
\* a cycle that the specifications build (at most TreeItems rows, or SourceItems <= TreeItems
\* rows and their copies), so that only a parent_id cycle reaches it.
RecursionLimit == TreeItems + 1

Top(stack) == stack[Len(stack)]
Pop(stack) == SubSeq(stack, 1, Len(stack) - 1)
SetTop(stack, frame) == [stack EXCEPT ![Len(stack)] = frame]

\* variant: the select returns the children that are not folders
RDelFrameFiles(folder_id) ==
    [id |-> folder_id,
     todo |-> {[id |-> c, type |-> items[c].type] :
                  c \in {d \in ChildrenOf(items, folder_id) : items[d].type # "folder"}},
     pc |-> "loop",
     removed |-> {}]

\* children = select("id, type").eq("parent_id", folder_id): the rows as read now.
\* `removed` is history, kept in the outermost frame: the ids this request has deleted.
RDelFrame(folder_id) ==
    [id |-> folder_id,
     todo |-> {[id |-> c, type |-> items[c].type] : c \in ChildrenOf(items, folder_id)},
     pc |-> "loop",
     removed |-> {}]

Removed(stack, id) == [stack EXCEPT ![1].removed = @ \cup {id}]

\* await recursive_del(req.item_id): the call and its select
recursive_del_call(item_id, snap) ==
    /\ rstack = <<>>
    /\ rstack' = <<RDelFrame(item_id)>>
    /\ pre' = snap
    /\ resp' = "none"
    /\ UNCHANGED <<items, nextId, users, dreq, cstack, outbox, sstack>>

\* for child in children (in the order the store returned them): a folder child
recursive_del_descend ==
    /\ rstack # <<>> /\ Top(rstack).pc = "loop"
    /\ Len(rstack) < RecursionLimit
    /\ \E c \in Top(rstack).todo :
        /\ c.type = "folder"
        /\ rstack' = Append(SetTop(rstack, [Top(rstack) EXCEPT !.todo = @ \ {c}]), RDelFrame(c.id))
    /\ UNCHANGED <<items, nextId, users, dreq, cstack, resp, pre, outbox, sstack>>

\* the recursion limit is hit: RecursionError, caught by `except Exception` -> 500
recursive_del_overflow ==
    /\ rstack # <<>> /\ Top(rstack).pc = "loop"
    /\ Len(rstack) >= RecursionLimit
    /\ \E c \in Top(rstack).todo : c.type = "folder"
    /\ rstack' = <<>>
    /\ resp' = "500"
    /\ pre' = NoSnap
    /\ UNCHANGED <<items, nextId, users, dreq, cstack, outbox, sstack>>

\* a child that is not a folder: delete().eq("id", child['id'])
recursive_del_child ==
    /\ rstack # <<>> /\ Top(rstack).pc = "loop"
    /\ \E c \in Top(rstack).todo :
        /\ c.type # "folder"
        /\ items' = DeleteId(items, c.id)
        /\ rstack' = Removed(SetTop(rstack, [Top(rstack) EXCEPT !.todo = @ \ {c}]), c.id)
    /\ UNCHANGED <<nextId, users, dreq, cstack, resp, pre, outbox, sstack>>

\* after the loop: delete().eq("id", folder_id), and the call returns
recursive_del_self ==
    /\ rstack # <<>> /\ Top(rstack).pc = "loop"
    /\ Top(rstack).todo = {}
    /\ items' = DeleteId(items, Top(rstack).id)
    /\ rstack' = Removed(IF Len(rstack) = 1
                         THEN <<[Top(rstack) EXCEPT !.pc = "return"]>>
                         ELSE Pop(rstack),
                         Top(rstack).id)
    /\ UNCHANGED <<nextId, users, dreq, cstack, resp, pre, outbox, sstack>>

\* return {"status": "deleted_recursive"}
recursive_del_return ==
    /\ rstack # <<>> /\ Top(rstack).pc = "return"
    /\ rstack' = <<>>
    /\ resp' = "200:deleted_recursive"
    /\ pre' = NoSnap
    /\ UNCHANGED <<items, nextId, users, dreq, cstack, outbox, sstack>>

---------------------------------------------------------------------------
(* cb_save_folder / copy_folder_recursive, statement by statement *)

CopyFrame(source_folder_id, target_user_id, target_parent_id) ==
    [pc |-> "select", src |-> source_folder_id, user |-> target_user_id,
     parent |-> target_parent_id, name |-> None, new |-> None, todo |-> {}]

\* cb_save_folder: await copy_folder_recursive(folder_id, user_id, None)
copy_call(folder_id, user_id, snap) ==
    /\ cstack = <<>>
    /\ cstack' = <<CopyFrame(folder_id, user_id, None)>>
    /\ pre' = snap
    /\ resp' = "none"
    /\ UNCHANGED <<items, nextId, users, dreq, rstack, outbox, sstack>>

\* folder_res = select("*").eq("id", source_folder_id).single(): the row is there
copy_select ==
    /\ cstack # <<>> /\ Top(cstack).pc = "select"
    /\ Top(cstack).src \in DOMAIN items
    /\ cstack' = SetTop(cstack, [Top(cstack) EXCEPT !.pc = "insert",
                                                    !.name = items[Top(cstack).src].name])
    /\ UNCHANGED <<items, nextId, users, dreq, rstack, resp, pre, outbox, sstack>>

\* the row is not there.  Depending on the client library, single() answers with
\* data = None (`if not folder_res.data: return`) or raises (caught in cb_save_folder).
copy_select_missing ==
    /\ cstack # <<>> /\ Top(cstack).pc = "select"
    /\ Top(cstack).src \notin DOMAIN items
    /\ \/ /\ cstack' = IF Len(cstack) = 1
                       THEN <<[Top(cstack) EXCEPT !.pc = "return"]>>
                       ELSE Pop(cstack)
          /\ UNCHANGED <<resp, pre, outbox, sstack>>
       \/ /\ cstack' = <<>>
          /\ resp' = "chat:copy_error"
          /\ pre' = NoSnap
    /\ UNCHANGED <<items, nextId, users, dreq, rstack, outbox, sstack>>

\* new_folder = insert(new_folder_data).data[0]
copy_insert_folder ==
    /\ cstack # <<>> /\ Top(cstack).pc = "insert"
    /\ nextId <= MaxItems
    /\ items' = InsertAs(items, nextId,
                    Row(Top(cstack).user, Top(cstack).name, "folder", None, NoSize,
                        Top(cstack).parent, nextId))
    /\ nextId' = nextId + 1
    /\ cstack' = SetTop(cstack, [Top(cstack) EXCEPT !.pc = "list", !.new = IdOf(nextId)])
    /\ UNCHANGED <<users, dreq, rstack, resp, pre, outbox, sstack>>

\* items = select("*").eq("parent_id", source_folder_id): the rows as read now
copy_list ==
    /\ cstack # <<>> /\ Top(cstack).pc = "list"
    /\ cstack' = SetTop(cstack,
          [Top(cstack) EXCEPT !.pc = "loop",
                              !.todo = {[id |-> c, type |-> items[c].type, name |-> items[c].name,
                                         file_id |-> items[c].file_id, size |-> items[c].size] :
                                            c \in ChildrenOf(items, Top(cstack).src)}])
    /\ UNCHANGED <<items, nextId, users, dreq, rstack, resp, pre, outbox, sstack>>

\* for item in items: a folder -> the recursive call
copy_descend ==
    /\ cstack # <<>> /\ Top(cstack).pc = "loop"
    /\ Len(cstack) < RecursionLimit
    /\ \E c \in Top(cstack).todo :
        /\ c.type = "folder"
        /\ cstack' = Append(SetTop(cstack, [Top(cstack) EXCEPT !.todo = @ \ {c}]),
                            CopyFrame(c.id, Top(cstack).user, Top(cstack).new))
    /\ UNCHANGED <<items, nextId, users, dreq, rstack, resp, pre, outbox, sstack>>

\* the recursion limit is hit: RecursionError, caught by the bare except of
\* cb_save_folder; the rows inserted so far stay
copy_overflow ==
    /\ cstack # <<>> /\ Top(cstack).pc = "loop"
    /\ Len(cstack) >= RecursionLimit
    /\ \E c \in Top(cstack).todo : c.type = "folder"
    /\ cstack' = <<>>
    /\ resp' = "chat:copy_error"
    /\ pre' = NoSnap
    /\ UNCHANGED <<items, nextId, users, dreq, rstack, outbox, sstack>>

\* for item in items: a file -> insert(new_file)
copy_insert_file ==
    /\ cstack # <<>> /\ Top(cstack).pc = "loop"
    /\ nextId <= MaxItems
    /\ \E c \in Top(cstack).todo :
        /\ c.type # "folder"
        /\ items' = InsertAs(items, nextId,
                        Row(Top(cstack).user, c.name, "file", c.file_id, c.size,
                            Top(cstack).new, nextId))
        /\ cstack' = SetTop(cstack, [Top(cstack) EXCEPT !.todo = @ \ {c}])
    /\ nextId' = nextId + 1
    /\ UNCHANGED <<users, dreq, rstack, resp, pre, outbox, sstack>>

\* the loop is over: the call returns
copy_end ==
    /\ cstack # <<>> /\ Top(cstack).pc = "loop"
    /\ Top(cstack).todo = {}
    /\ cstack' = IF Len(cstack) = 1
                 THEN <<[Top(cstack) EXCEPT !.pc = "return"]>>
                 ELSE Pop(cstack)
    /\ UNCHANGED <<items, nextId, users, dreq, rstack, resp, pre, outbox, sstack>>

\* cb_save_folder answers that the folder was saved
copy_return ==
    /\ cstack # <<>> /\ Top(cstack).pc = "return"
    /\ cstack' = <<>>
    /\ resp' = "chat:copy_saved"
    /\ pre' = NoSnap
    /\ UNCHANGED <<items, nextId, users, dreq, rstack, outbox, sstack>>

---------------------------------------------------------------------------
(* Reads *)

\* the suffix tests of download_file, get_profile_stats and send_folder_contents
EndsWith(name, suffix) ==
    /\ Len(name) >= Len(suffix)
    /\ SubSeq(name, Len(name) - Len(suffix) + 1, Len(name)) = suffix

IsPhotoName(name) == EndsWith(name, ".jpg") \/ EndsWith(name, ".jpeg") \/ EndsWith(name, ".png")
IsVideoName(name) == EndsWith(name, ".mp4") \/ EndsWith(name, ".mov")
KindOf(name) == IF IsPhotoName(name) THEN "photo" ELSE IF IsVideoName(name) THEN "video" ELSE "document"

\* variant: "root" is taken for the id of a folder
FilesQueryRootId(u, folder_id, mode) ==
    {i \in DOMAIN items :
        /\ items[i].user_id = u
        /\ IF mode = "global" THEN items[i].type # "folder"
           ELSE IF mode = "folders" THEN items[i].type = "folder"
           ELSE IF folder_id # None /\ folder_id # "null"
           THEN items[i].parent_id = folder_id
           ELSE items[i].parent_id = None}

\* the rows get_files selects: the filters of lines 403-407
FilesQuery(u, folder_id, mode) ==
    {i \in DOMAIN items :
        /\ items[i].user_id = u
        /\ IF mode = "global" THEN items[i].type # "folder"
           ELSE IF mode = "folders" THEN items[i].type = "folder"
           ELSE IF folder_id # None /\ folder_id # "null" /\ folder_id # "root"
           THEN items[i].parent_id = folder_id
           ELSE items[i].parent_id = None}

\* order("type", desc=True).order("created_at", desc=True): "folder" > "file"
ListsBefore(a, b) ==
    \/ items[a].type = "folder" /\ items[b].type # "folder"
    \/ items[a].type = items[b].type /\ items[a].created_at > items[b].created_at

RECURSIVE Ordered(_)
Ordered(S) ==
    IF S = {} THEN <<>>
    ELSE LET first == CHOOSE a \in S : \A b \in S \ {a} : ListsBefore(a, b)
         IN <<first>> \o Ordered(S \ {first})

\* the list get_files returns to a caller that is not blocked
get_files(u, folder_id, mode) == Ordered(FilesQuery(u, folder_id, mode))

\* GET /api/files
get_files_request(u, folder_id, mode) ==
    /\ resp' = IF check_is_blocked(u) THEN "403:USER_BLOCKED" ELSE "200:list"
    /\ UNCHANGED <<items, nextId, users, dreq, rstack, cstack, outbox, sstack, pre>>

\* GET /api/profile
get_profile_stats(u) ==
    /\ resp' = IF check_is_blocked(u) THEN "403:USER_BLOCKED" ELSE "200:stats"
    /\ UNCHANGED <<items, nextId, users, dreq, rstack, cstack, outbox, sstack, pre>>

\* POST /api/download.  recipient_id = 0 stands for an absent (None) or zero recipient_id:
\* `req.recipient_id if req.recipient_id else req.user_id` treats both alike.
RedirectByRequester(user_id, target_id) ==
    user_id \in DOMAIN users /\ users[user_id].username = ADMIN_USERNAME

\* lines 476-477: the row of the target chat exists and carries the administrator's username
RedirectAllowed(user_id, target_id) ==
    target_id \in DOMAIN users /\ users[target_id].username = ADMIN_USERNAME

\* the entry of outbox a download leaves: `by` records the requester of the call
Delivered(user_id, target_id, file_id, file_name) ==
    [to |-> target_id, by |-> user_id, file_id |-> file_id, kind |-> KindOf(file_name)]

download_file(user_id, file_id, file_name, recipient_id) ==
    LET target_id == IF recipient_id # 0 THEN recipient_id ELSE user_id
        denied == target_id # user_id /\ ~RedirectAllowed(user_id, target_id)
        blocked == target_id = user_id /\ check_is_blocked(user_id)
    IN /\ UNCHANGED <<items, nextId, users, dreq, rstack, cstack, pre, sstack>>
       /\ IF denied THEN resp' = "403:Access Denied" /\ UNCHANGED outbox
          ELSE IF blocked THEN resp' = "403:USER_BLOCKED" /\ UNCHANGED outbox
          ELSE \/ /\ outbox' = <<Delivered(user_id, target_id, file_id, file_name)>>
                  /\ resp' = "200:sent"
               \/ \* bot.send_* raises (line 494)
                  /\ resp' = "500"
                  /\ UNCHANGED outbox

---------------------------------------------------------------------------
(* cb_send_folder / send_folder_contents, send by send.  Every call of the chat
   transport either succeeds or raises. *)

\* str comparison of the names the model uses
NameRank(name) == IF name = "a" THEN 1 ELSE IF name = "b" THEN 2 ELSE 3

\* items.sort(key=lambda x: (x['type'] != 'folder', x['name'])): c may come next when
\* no other item has a smaller key (the sort is stable: ties keep the order of the select)
SortsBefore(d, c) ==
    \/ d.type = "folder" /\ c.type # "folder"
    \/ (d.type = "folder") = (c.type = "folder") /\ NameRank(d.name) < NameRank(c.name)

NextToSend(todo) == {c \in todo : \A d \in todo : ~SortsBefore(d, c)}

\* items = select("*").eq("parent_id", folder_id): the rows as read now
SendFrame(chat_id, folder_id) ==
    [pc |-> "loop", chat |-> chat_id, id |-> folder_id,
     todo |-> {[id |-> c, type |-> items[c].type, name |-> items[c].name,
                file_id |-> items[c].file_id] : c \in ChildrenOf(items, folder_id)}]

\* an entry of the log of sends
Sent(chat_id, kind, c, ok) ==
    [to |-> chat_id, kind |-> kind, id |-> c.id, file_id |-> c.file_id, ok |-> ok]

\* cb_send_folder: await send_folder_contents(callback.from_user.id, folder_id)
send_call(chat_id, folder_id, snap) ==
    /\ sstack = <<>>
    /\ sstack' = <<SendFrame(chat_id, folder_id)>>
    /\ outbox' = <<>>
    /\ pre' = snap
    /\ resp' = "none"
    /\ UNCHANGED <<items, nextId, users, dreq, rstack, cstack>>

\* a folder: await bot.send_message(..) succeeds, then the recursive call and its select
send_announce ==
    /\ sstack # <<>> /\ Top(sstack).pc = "loop"
    /\ Len(sstack) < RecursionLimit
    /\ \E c \in NextToSend(Top(sstack).todo) :
        /\ c.type = "folder"
        /\ outbox' = Append(outbox, Sent(Top(sstack).chat, "message", c, TRUE))
        /\ sstack' = Append(SetTop(sstack, [Top(sstack) EXCEPT !.todo = @ \ {c}]),
                            SendFrame(Top(sstack).chat, c.id))
    /\ UNCHANGED <<items, nextId, users, dreq, rstack, cstack, resp, pre>>

\* a folder: await bot.send_message(..) raises, or the recursion limit is reached; the
\* exception leaves every send_folder_contents and cb_send_folder answers with the error
send_announce_raises ==
    /\ sstack # <<>> /\ Top(sstack).pc = "loop"
    /\ \E c \in NextToSend(Top(sstack).todo), ok \in BOOLEAN :
        /\ c.type = "folder"
        /\ ok => Len(sstack) >= RecursionLimit
        /\ outbox' = Append(outbox, Sent(Top(sstack).chat, "message", c, ok))
    /\ sstack' = <<[sstack[1] EXCEPT !.pc = "return"]>>
    /\ resp' = "chat:send_error"
    /\ UNCHANGED <<items, nextId, users, dreq, rstack, cstack, pre>>

\* a file: send_photo, send_video or send_document by the name; an exception is passed over
send_file ==
    /\ sstack # <<>> /\ Top(sstack).pc = "loop"
    /\ \E c \in NextToSend(Top(sstack).todo), ok \in BOOLEAN :
        /\ c.type # "folder"
        /\ outbox' = Append(outbox, Sent(Top(sstack).chat, KindOf(c.name), c, ok))
        /\ sstack' = SetTop(sstack, [Top(sstack) EXCEPT !.todo = @ \ {c}])
    /\ UNCHANGED <<items, nextId, users, dreq, rstack, cstack, resp, pre>>

\* the loop is over: the call returns; the outermost to cb_send_folder, which answers
send_end ==
    /\ sstack # <<>> /\ Top(sstack).pc = "loop"
    /\ Top(sstack).todo = {}
    /\ sstack' = IF Len(sstack) = 1 THEN <<[Top(sstack) EXCEPT !.pc = "return"]>> ELSE Pop(sstack)
    /\ resp' = IF Len(sstack) = 1 THEN "chat:send_done" ELSE resp
    /\ UNCHANGED <<items, nextId, users, dreq, rstack, cstack, outbox, pre>>

\* cb_send_folder is over
send_return ==
    /\ sstack # <<>> /\ Top(sstack).pc = "return"
    /\ sstack' = <<>>
    /\ pre' = NoSnap
    /\ UNCHANGED <<items, nextId, users, dreq, rstack, cstack, resp, outbox>>

---------------------------------------------------------------------------
(* cb_view_folder / get_folder_tree_text.  get_folder_tree_text is synchronous and
   cb_view_folder does not await between its select and its answer, so the handler
   is one step. *)

\* items.sort(key=lambda x: (x['type'] != 'folder', x['name'])) as a sequence of ids;
\* rows with equal keys keep the order of the select, which is fixed here by CHOOSE
RECURSIVE TreeOrdered(_)
TreeOrdered(S) ==
    IF S = {} THEN <<>>
    ELSE LET first == CHOOSE a \in S : \A b \in S \ {a} : ~SortsBefore(items[b], items[a])
         IN <<first>> \o TreeOrdered(S \ {first})

\* one line of the text: the prefix of 4 * indent spaces, the number i and the name
TreeLine(indent, i, item) ==
    [indent |-> indent, i |-> i, name |-> item.name, folder |-> item.type = "folder"]

NoText == [raised |-> FALSE, text |-> <<>>]
RecursionError == [raised |-> TRUE, text |-> <<>>]

\* get_folder_tree_text at call depth `depth`; tree_lines is its loop from the i-th row on.
\* The result is the text, or the RecursionError that leaves every call.
RECURSIVE get_folder_tree_text(_, _, _, _)
RECURSIVE tree_lines(_, _, _, _, _)
tree_lines(user_id, rows, i, indent, depth) ==
    IF i > Len(rows) THEN NoText
    ELSE LET item == items[rows[i]]
             sub == IF item.type # "folder" THEN NoText
                    ELSE IF depth >= RecursionLimit THEN RecursionError
                    ELSE get_folder_tree_text(user_id, rows[i], indent + 1, depth + 1)
             rest == tree_lines(user_id, rows, i + 1, indent, depth)
         IN IF sub.raised THEN RecursionError
            ELSE IF rest.raised THEN RecursionError
            ELSE [raised |-> FALSE, text |-> <<TreeLine(indent, i, item)>> \o sub.text \o rest.text]

get_folder_tree_text(user_id, folder_id, indent, depth) ==
    tree_lines(user_id,
               TreeOrdered({c \in DOMAIN items : /\ items[c].user_id = user_id
                                                 /\ items[c].parent_id = folder_id}),
               1, indent, depth)

\* cb_view_folder.  A missing row: single() answers data = None (the "not found" answer)
\* or raises, depending on the client library.  An exception leaves the handler
\* unanswered.  (The cut at 4000 characters is beyond the texts of the model.)
cb_view_folder(chat_id, folder_id) ==
    /\ IF folder_id \notin DOMAIN items
       THEN resp' \in {"chat:view_missing", "chat:unhandled"} /\ UNCHANGED outbox
       ELSE LET tree_text == get_folder_tree_text(items[folder_id].user_id, folder_id, 0, 1)
            IN IF tree_text.raised
               THEN resp' = "chat:RecursionError" /\ UNCHANGED outbox
               ELSE /\ resp' = "chat:view"
                    /\ outbox' = <<[to |-> chat_id, kind |-> "tree",
                                    name |-> items[folder_id].name, text |-> tree_text.text]>>
    /\ UNCHANGED <<items, nextId, users, dreq, rstack, cstack, sstack, pre>>

---------------------------------------------------------------------------
(* Admin handlers *)

IsAdminRow(u) == u \in DOMAIN users /\ users[u].username = ADMIN_USERNAME

\* the answers to a caller that passes no admin check.  For a caller with no row,
\* single() answers data = None (-> 403) or raises (-> 500), depending on the client library.
AdminDenied(admin_id) ==
    IF admin_id \in DOMAIN users THEN {"403:Access Denied"} ELSE {"403:Access Denied", "500"}

\* POST /api/admin/users: the check, then a read of the users table
get_all_users(admin_id) ==
    /\ IF ~IsAdminRow(admin_id)
       THEN resp' \in AdminDenied(admin_id)
       ELSE resp' = "200:users"
    /\ UNCHANGED <<items, nextId, users, dreq, rstack, cstack, outbox, sstack, pre>>

\* variant: the guard of the self-action is missing
NoSelfGuard(admin_id, target_user_id) == FALSE

\* req.target_user_id == req.admin_id
SelfTarget(admin_id, target_user_id) == target_user_id = admin_id

\* POST /api/admin/block
toggle_block_user(admin_id, target_user_id) ==
    /\ UNCHANGED <<items, nextId, dreq, rstack, cstack, outbox, sstack, pre>>
    /\ IF ~IsAdminRow(admin_id)
       THEN resp' \in AdminDenied(admin_id) /\ UNCHANGED users
       ELSE IF SelfTarget(admin_id, target_user_id)
       THEN resp' = "200:error" /\ UNCHANGED users
       ELSE IF target_user_id \notin DOMAIN users
       THEN resp' = "500" /\ UNCHANGED users
       ELSE /\ users' = [users EXCEPT ![target_user_id].is_blocked = ~@]
            /\ resp' = "200:ok"

\* POST /api/admin/delete_user: both deletes (no other request is modelled between them)
delete_user_admin(admin_id, target_user_id) ==
    /\ UNCHANGED <<nextId, dreq, rstack, cstack, outbox, sstack, pre>>
    /\ IF ~IsAdminRow(admin_id)
       THEN resp' \in AdminDenied(admin_id) /\ UNCHANGED <<items, users>>
       ELSE IF SelfTarget(admin_id, target_user_id)
       THEN resp' = "200:error" /\ UNCHANGED <<items, users>>
       ELSE /\ items' = DeleteOwnedBy(items, target_user_id)
            /\ users' = [v \in DOMAIN users \ {target_user_id} |-> users[v]]
            /\ resp' = "200:ok"

---------------------------------------------------------------------------
(* Specifications *)

Names == {"a", "b.jpg"}
ParentInputs == AllocatedIds \cup {None, "null", ""}
Busy == dreq # Idle \/ rstack # <<>> \/ cstack # <<>> \/ sstack # <<>>

\* the requests that are a single statement on the items table
TreeRequest(U, N, M) ==
    \/ \E u \in U, n \in N, p \in ParentInputs : create_folder(u, n, p)
    \/ \E u \in U, m \in M : handle_files(u, m)
    \/ \E i \in AllocatedIds, f \in AllocatedIds \cup {None} : move_file(i, f)
    \/ \E i \in AllocatedIds, n \in N : rename_item(i, n)
    \/ \E u \in U : delete_all_data(u)

DeleteSteps == delete_item_update \/ delete_item_delete \/ delete_item_return

RDelSteps ==
    \/ recursive_del_descend
    \/ recursive_del_overflow
    \/ recursive_del_child
    \/ recursive_del_self
    \/ recursive_del_return

CopySteps ==
    \/ copy_select
    \/ copy_select_missing
    \/ copy_insert_folder
    \/ copy_list
    \/ copy_descend
    \/ copy_overflow
    \/ copy_insert_file
    \/ copy_end
    \/ copy_return

TreeInputs == TreeRequest(UserIds, {"a"}, Messages({"document"}, {"h1"}, {"a"}))

\* One request at a time: every request runs to its end before the next begins.
Next ==
    \/ ~Busy /\ TreeInputs /\ nextId' <= TreeItems + 1
    \/ ~Busy /\ \E i \in AllocatedIds : delete_item_select(i, items)
    \/ DeleteSteps
    \/ ~Busy /\ \E i \in AllocatedIds : recursive_del_call(i, items)
    \/ RDelSteps

Spec == Init /\ [][Next]_vars

\* The tree requests and delete_item, one request at a time
DeleteNext ==
    \/ ~Busy /\ TreeInputs /\ nextId' <= TreeItems + 1
    \/ ~Busy /\ \E i \in AllocatedIds : delete_item_select(i, items)
    \/ DeleteSteps

DeleteSpec == Init /\ [][DeleteNext]_vars

\* The tree requests and delete_folder_recursive_api, one request at a time.
\* User 1 makes folders and uploads files; user 2 uploads files.
RDeleteInputs ==
    \/ \E p \in ParentInputs : create_folder(1, "a", p)
    \/ \E u \in UserIds, m \in Messages({"document"}, {"h1"}, {"a"}) : handle_files(u, m)
    \/ \E i \in AllocatedIds, f \in AllocatedIds \cup {None} : move_file(i, f)
    \/ \E u \in UserIds : delete_all_data(u)

RDeleteNext ==
    \/ ~Busy /\ RDeleteInputs /\ nextId' <= TreeItems + 1
    \/ ~Busy /\ \E i \in AllocatedIds : recursive_del_call(i, items)
    \/ RDelSteps

RDeleteSpec == Init /\ [][RDeleteNext]_vars

\* One request at a time.  User 1 builds trees of at most SourceItems rows; then any
\* user saves copies by the links of these rows (also by a link to a row that is not there).
BuiltIds == {IdOf(n) : n \in 1..SourceItems} \cap AllocatedIds

CopyNext ==
    \/ ~Busy /\ \/ \E n \in Names, p \in ParentInputs : create_folder(1, n, p)
                \/ \E m \in Messages({"document"}, Handles, {"a"}) : handle_files(1, m)
             /\ nextId' <= SourceItems + 1
    \/ ~Busy /\ nextId <= SourceItems + 1
             /\ \E i \in AllocatedIds, f \in AllocatedIds \cup {None} : move_file(i, f)
    \/ ~Busy /\ nextId <= MaxItems
             /\ \E i \in BuiltIds \cup {"id0"}, u \in UserIds : copy_call(i, u, items)
    \/ CopySteps

CopySpec == Init /\ [][CopyNext]_vars

\* Requests of several callers against the shared store, interleaved statement by
\* statement: one request of several statements in flight, and any number of
\* single-statement requests between its statements.
RaceNext ==
    \/ TreeRequest({1}, {"a"}, Messages({"document"}, {"h1"}, {"a"})) /\ nextId' <= RaceItems + 1
    \/ ~Busy /\ \E i \in AllocatedIds : delete_item_select(i, NoSnap)
    \/ DeleteSteps
    \/ ~Busy /\ \E i \in AllocatedIds : recursive_del_call(i, NoSnap)
    \/ RDelSteps

RaceSpec == Init /\ [][RaceNext]_vars

\* The users table and the access checks: users start the bot under a username, the
\* administrator blocks and deletes users, and every entry point is called by every user.
AccessNext ==
    \/ ~Busy /\ \E u \in UserIds, n \in UserNames : command_start(u, n)
    \/ ~Busy /\ \E a \in UserIds : get_all_users(a)
    \/ ~Busy /\ \E a \in UserIds, t \in UserIds : toggle_block_user(a, t)
    \/ ~Busy /\ \E a \in UserIds, t \in UserIds : delete_user_admin(a, t)
    \/ ~Busy /\ TreeInputs /\ nextId' <= AccessItems + 1
    \/ ~Busy /\ \E u \in UserIds, f \in AllocatedIds \cup {None}, m \in {"strict", "global", "folders"} :
                    get_files_request(u, f, m)
    \/ ~Busy /\ \E u \in UserIds : get_profile_stats(u)
    \/ ~Busy /\ \E u \in UserIds, r \in UserIds \cup {0} : download_file(u, "h1", "a", r)
    \/ ~Busy /\ \E i \in AllocatedIds : delete_item_select(i, items)
    \/ DeleteSteps
    \/ ~Busy /\ \E i \in AllocatedIds : recursive_del_call(i, items)
    \/ RDelSteps

AccessSpec == Init /\ [][AccessNext]_vars

\* Every handler that writes, one request at a time: user 1, the administrator, and
\* user 2 start the bot, the administrator blocks and deletes users, and both build,
\* rename, move, delete and copy.
NewNames == {"b"}

CatalogInputs ==
    \/ \E u \in UserIds, p \in ParentInputs : create_folder(u, "a", p)
    \/ \E u \in UserIds, m \in Messages({"document"}, {"h1"}, {"a"}) : handle_files(u, m)
    \/ \E i \in AllocatedIds, f \in AllocatedIds \cup {None} : move_file(i, f)
    \/ \E i \in AllocatedIds, n \in NewNames : rename_item(i, n)
    \/ \E u \in UserIds : delete_all_data(u)

CatalogNext ==
    \/ ~Busy /\ (command_start(1, ADMIN_USERNAME) \/ command_start(2, "bob"))
    \/ ~Busy /\ \E a \in UserIds, t \in UserIds : toggle_block_user(a, t)
    \/ ~Busy /\ \E a \in UserIds, t \in UserIds : delete_user_admin(a, t)
    \/ ~Busy /\ CatalogInputs /\ nextId' <= CatalogItems + 1
    \/ ~Busy /\ \E i \in AllocatedIds : delete_item_select(i, NoSnap)
    \/ DeleteSteps
    \/ ~Busy /\ \E i \in AllocatedIds : recursive_del_call(i, NoSnap)
    \/ RDelSteps
    \/ ~Busy /\ nextId <= CatalogItems + 1 /\ \E i \in AllocatedIds : copy_call(i, 2, NoSnap)
    \/ CopySteps

CatalogSpec == Init /\ [][CatalogNext]_vars

\* The single-statement tree requests of both users, for the lists of get_files
ListNext == TreeInputs /\ nextId' <= ListItems + 1

ListSpec == Init /\ [][ListNext]_vars

\* Ingestion: users start the bot, the administrator blocks, users send messages with
\* attachments and wipe their items
IngestNext ==
    \/ \E u \in UserIds, n \in UserNames : command_start(u, n)
    \/ \E a \in UserIds, t \in UserIds : toggle_block_user(a, t)
    \/ (\E u \in UserIds, m \in AnyMessages : handle_files(u, m)) /\ nextId' <= IngestItems + 1
    \/ \E u \in UserIds : delete_all_data(u)

IngestSpec == Init /\ [][IngestNext]_vars

\* One request at a time: user 1 builds a tree, then a folder is sent to a chat
SendSteps == send_announce \/ send_announce_raises \/ send_file \/ send_end \/ send_return

SendNext ==
    \/ ~Busy /\ TreeRequest({1}, {"a"}, Messages({"document"}, {"h1"}, {"a"}))
             /\ nextId' <= SendItems + 1
    \/ ~Busy /\ \E c \in UserIds, i \in AllocatedIds : send_call(c, i, items)
    \/ SendSteps

SendSpec == Init /\ [][SendNext]_vars

\* The access gate of the writes: users start the bot under either username, the
\* administrator lists, blocks and deletes users, and every user makes folders
\* anywhere, uploads files and wipes their items.
GateNext ==
    \/ \E u \in UserIds, n \in UserNames : command_start(u, n)
    \/ \E a \in UserIds : get_all_users(a)
    \/ \E a \in UserIds, t \in UserIds : toggle_block_user(a, t)
    \/ \E a \in UserIds, t \in UserIds : delete_user_admin(a, t)
    \/ (\E u \in UserIds, p \in ParentInputs : create_folder(u, "a", p)) /\ nextId' <= GateItems + 1
    \/ (\E u \in UserIds, m \in Messages({"document"}, {"h1"}, {"a"}) : handle_files(u, m))
            /\ nextId' <= GateItems + 1
    \/ \E u \in UserIds : delete_all_data(u)

GateSpec == Init /\ [][GateNext]_vars

\* the download endpoint and the operations that write the users table
DownloadInputs == [user_id : UserIds, file_id : Handles, file_name : Names,
                   recipient_id : UserIds \cup {0}]

DownloadNext ==
    \/ \E u \in UserIds, n \in UserNames : command_start(u, n)
    \/ \E a \in UserIds, t \in UserIds : toggle_block_user(a, t)
    \/ \E a \in UserIds, t \in UserIds : delete_user_admin(a, t)
    \/ \E q \in DownloadInputs : download_file(q.user_id, q.file_id, q.file_name, q.recipient_id)

DownloadSpec == Init /\ [][DownloadNext]_vars

\* One request at a time: user 1 builds a table of at most RecurseItems rows and moves
\* its rows; folders are deleted, sent and shown by their ids, and copied while the
\* ids of at most RecurseItems rows have been given out.
RecurseNext ==
    \/ ~Busy /\ TreeRequest({1}, {"a"}, Messages({"document"}, {"h1"}, {"a"}))
             /\ nextId' <= RecurseItems + 1
    \/ ~Busy /\ \E i \in AllocatedIds : recursive_del_call(i, items)
    \/ RDelSteps
    \/ ~Busy /\ nextId <= RecurseItems + 1 /\ \E i \in AllocatedIds : copy_call(i, 1, items)
    \/ CopySteps
    \/ ~Busy /\ \E i \in AllocatedIds : send_call(1, i, items)
    \/ SendSteps
    \/ ~Busy /\ \E i \in AllocatedIds \cup {"id0"} : cb_view_folder(1, i)

RecurseSpec == Init /\ [][RecurseNext]_vars

---------------------------------------------------------------------------
(* Tree shape *)

\* the k-th item up the parent_id links from i (None once the links end)
RECURSIVE Climb(_, _, _)
Climb(tbl, i, k) ==
    IF k = 0 THEN i
    ELSE IF i \notin DOMAIN tbl THEN None
    ELSE Climb(tbl, tbl[i].parent_id, k - 1)

Ancestors(tbl, i) == {Climb(tbl, i, k) : k \in 1..Cardinality(DOMAIN tbl)} \ {None}
Descendants(tbl, f) == {i \in DOMAIN tbl : f \in Ancestors(tbl, i)}
Subtree(tbl, f) == {f} \cup Descendants(tbl, f)

\* I1 and I2 of the data model: no cycle, every parent_id names a folder of the same user
WellFormed(tbl) ==
    \A i \in DOMAIN tbl :
        /\ i \notin Ancestors(tbl, i)
        /\ tbl[i].parent_id # None =>
            /\ tbl[i].parent_id \in DOMAIN tbl
            /\ tbl[tbl[i].parent_id].type = "folder"
            /\ tbl[tbl[i].parent_id].user_id = tbl[i].user_id

---------------------------------------------------------------------------
(* C1: after any sequence of accepted requests no item is its own ancestor: following
   parent_id from any item ends at None (no cycle, no self-parent). *)
C1_NoParentCycle == \A i \in DOMAIN items : i \notin Ancestors(items, i)

(* C2: Move(file_id, folder_id) with folder_id = file_id, or folder_id a transitive
   descendant of file_id, is rejected with InvalidMove and changes no parent_id. *)
C2_MoveRejectsCycle ==
    [][\A i \in DOMAIN items, f \in DOMAIN items :
            ((f = i \/ f \in Descendants(items, i)) /\ move_file(i, f))
                => (resp' = "400:InvalidMove" /\ items' = items)]_vars

(* C3: when the non-recursive Delete of a folder F removes the row F, no surviving item
   has parent_id = F, whatever requests ran between its statements. *)
C3_DeleteLeavesNoOrphan ==
    [][(dreq.pc = "delete" /\ dreq.folder /\ dreq'.pc = "return")
            => \A i \in DOMAIN items' : items'[i].parent_id # dreq.id]_vars

(* C4: run alone, Delete(F) of a folder removes only the row F, every other former
   direct child of F is still there with parent_id = None, and every other row is
   unchanged in every field; Delete of a file removes only that row. *)
C4_DeleteFrame ==
    (dreq.pc = "return" /\ dreq.id \in DOMAIN pre) =>
        /\ DOMAIN items = DOMAIN pre \ {dreq.id}
        /\ \A i \in DOMAIN items :
              items[i] = IF pre[dreq.id].type = "folder" /\ pre[i].parent_id = dreq.id
                         THEN [pre[i] EXCEPT !.parent_id = None]
                         ELSE pre[i]

\* a folder with a child of another user that has a child of its own was deleted
C4_Witness ==
    /\ dreq.pc = "return" /\ dreq.id \in DOMAIN pre /\ pre[dreq.id].type = "folder"
    /\ \E c \in DOMAIN items, g \in DOMAIN items :
          /\ pre[c].parent_id = dreq.id /\ pre[c].user_id # pre[dreq.id].user_id
          /\ pre[g].parent_id = c /\ items[g].parent_id = c /\ items[c].parent_id = None

(* C5: run alone on a well-formed tree, DeleteRecursive(F) removes F and every
   transitive descendant of F, no list of the owner in any mode contains one of them,
   and every row outside F's subtree is unchanged. *)
ListInputs == AllocatedIds \cup {None, "null", "root"}
ListModes == {"strict", "global", "folders"}

C5_DeleteRecursive ==
    (rstack # <<>> /\ Top(rstack).pc = "return"
        /\ rstack[1].id \in DOMAIN pre /\ WellFormed(pre)) =>
        LET gone == Subtree(pre, rstack[1].id) IN
        /\ DOMAIN items = DOMAIN pre \ gone
        /\ \A i \in DOMAIN items : items[i] = pre[i]
        /\ \A f \in ListInputs, m \in ListModes :
              LET l == get_files(pre[rstack[1].id].user_id, f, m)
              IN \A k \in 1..Len(l) : l[k] \notin gone

\* a folder holding a folder that holds an item was deleted recursively
C5_Witness ==
    /\ rstack # <<>> /\ Top(rstack).pc = "return"
    /\ rstack[1].id \in DOMAIN pre /\ WellFormed(pre)
    /\ \E c \in DOMAIN pre, g \in DOMAIN pre :
          pre[c].parent_id = rstack[1].id /\ pre[g].parent_id = c
    /\ items = EmptyTable

(* C6: while and after DeleteRecursive runs, no item has a parent_id naming a row
   that this DeleteRecursive has removed, whatever requests ran between its statements. *)
C6_NoItemOutlivesAncestor ==
    rstack # <<>> => \A i \in DOMAIN items : items[i].parent_id \notin rstack[1].removed

(* C7: run alone, CopyFolderRecursive(F, target, None) creates rows that are an
   isomorphic image of F's subtree: fresh ids, user_id = target, the same name and type,
   files with the same file handle and size, the copy of F at the root, every other copy
   under the copy of its source's parent; and every row that was there is unchanged. *)
CopyOf(m, target) ==
    \A n \in DOMAIN m :
        /\ items[n].user_id = target
        /\ items[n].name = pre[m[n]].name
        /\ items[n].type = pre[m[n]].type
        /\ items[n].file_id = pre[m[n]].file_id
        /\ items[n].size = pre[m[n]].size
        /\ IF m[n] = cstack[1].src
           THEN items[n].parent_id = cstack[1].parent
           ELSE /\ items[n].parent_id \in DOMAIN m
                /\ m[items[n].parent_id] = pre[m[n]].parent_id

CopiedIsomorphic ==
    LET new == DOMAIN items \ DOMAIN pre
        src == Subtree(pre, cstack[1].src)
    IN /\ \A i \in DOMAIN pre : i \in DOMAIN items /\ items[i] = pre[i]
       /\ \E m \in [new -> src] :
             /\ \A a \in new, b \in new : m[a] = m[b] => a = b
             /\ \A x \in src : \E n \in new : m[n] = x
             /\ CopyOf(m, cstack[1].user)

CopyReturned ==
    /\ cstack # <<>> /\ Top(cstack).pc = "return"
    /\ cstack[1].src \in DOMAIN pre /\ pre[cstack[1].src].type = "folder"

C7_CopyIsomorphic == CopyReturned => CopiedIsomorphic

\* the same on the tables that are forests of folders (I1, I2)
CopyIsomorphicOnForest == (CopyReturned /\ WellFormed(pre)) => CopiedIsomorphic

(* C8: every call of a catalog entry point by a user who is flagged blocked and is
   not the administrator is answered Forbidden and leaves the items table unchanged;
   the same call by the administrator is not answered Forbidden, flagged or not. *)
Forbidden(r) == r \in {"403:USER_BLOCKED", "403:Access Denied"}

CallBy(u) ==
    \/ \E f \in AllocatedIds \cup {None}, m \in ListModes : get_files_request(u, f, m)
    \/ get_profile_stats(u)
    \/ \E n \in Names, p \in ParentInputs : create_folder(u, n, p)
    \/ delete_all_data(u)
    \/ \E r \in UserIds \cup {0} : download_file(u, "h1", "a", r)
    \/ \E i \in DOMAIN items :
          /\ items[i].user_id = u
          /\ \/ \E n \in Names : rename_item(i, n)
             \/ \E f \in AllocatedIds \cup {None} : move_file(i, f)
             \/ delete_item_select(i, items)
             \/ recursive_del_call(i, items)

C8_BlockedIsForbidden ==
    [][\A u \in DOMAIN users :
          /\ (users[u].is_blocked /\ users[u].username # ADMIN_USERNAME /\ CallBy(u))
                => (Forbidden(resp') /\ items' = items)
          /\ (users[u].username = ADMIN_USERNAME /\ CallBy(u)) => resp' # "403:USER_BLOCKED"]_vars

(* C9: every item with a parent_id has the user_id of the item its parent_id names. *)
C9_OwnershipLocal ==
    \A i \in DOMAIN items :
        items[i].parent_id \in DOMAIN items => items[items[i].parent_id].user_id = items[i].user_id

(* C10: no item is ever placed under a file: every parent_id that names an item
   names an item of type folder. *)
C10_ParentIsFolder ==
    \A i \in DOMAIN items :
        items[i].parent_id \in DOMAIN items => items[items[i].parent_id].type = "folder"

(* C11: get_all_users, toggle_block_user and delete_user_admin answer Forbidden to
   every caller whose stored username is not the administrator's, a caller with no
   user row included, and such a call changes no user row and no item. *)
C11_AdminOnly ==
    [][\A a \in UserIds, t \in UserIds :
            (~IsAdminRow(a)
                /\ (get_all_users(a) \/ toggle_block_user(a, t) \/ delete_user_admin(a, t)))
            => (resp' = "403:Access Denied" /\ users' = users /\ items' = items)]_vars

(* C12: a block or delete_user call of an administrator that targets the caller leaves
   the users table (the caller's row and is_blocked flag) and the items unchanged. *)
C12_NoSelfAction ==
    [][\A a \in UserIds :
            (IsAdminRow(a) /\ (toggle_block_user(a, a) \/ delete_user_admin(a, a)))
            => (users' = users /\ items' = items /\ resp' = "200:error")]_vars

\* an administrator who owns items and has blocked the other user was answered "error"
C12_Witness ==
    /\ resp = "200:error"
    /\ \E a \in DOMAIN users :
          /\ users[a].username = ADMIN_USERNAME
          /\ \E i \in DOMAIN items : items[i].user_id = a
          /\ \E b \in DOMAIN users \ {a} : users[b].is_blocked

(* C13: run alone, Delete(item_id) answers success and leaves no row item_id; when
   no row item_id existed the items table is unchanged, so a second Delete(item_id)
   changes nothing. *)
C13_DeleteMissing ==
    [][(dreq.pc = "return" /\ dreq'.pc = "idle")
            => /\ resp' = "200:deleted"
               /\ dreq.id \notin DOMAIN items'
               /\ dreq.id \notin DOMAIN pre => items' = pre]_vars

\* Delete of an id that names no row while another row still points to it
C13_Witness ==
    /\ dreq.pc = "return"
    /\ dreq.id \notin DOMAIN pre
    /\ \E i \in DOMAIN items : items[i].parent_id = dreq.id

(* C14: an item that exists before and after a step keeps its type, its file handle
   and its owner under its id, whatever the step is; a Rename that changes the table
   changes only names and a Move that changes the table changes only parent_ids
   (both add and remove no row). *)
C14_TypeImmutable ==
    [][/\ \A i \in DOMAIN items \cap DOMAIN items' :
              /\ items'[i].type = items[i].type
              /\ items'[i].file_id = items[i].file_id
              /\ items'[i].user_id = items[i].user_id
       /\ (resp' = "200:ok" /\ DOMAIN items' = DOMAIN items /\ items' # items) =>
              /\ \A i \in DOMAIN items, n \in NewNames \cup {"a"} :
                    rename_item(i, n) =>
                        \A j \in DOMAIN items :
                            items'[j] = [items[j] EXCEPT !.name = items'[j].name]
              /\ \A i \in DOMAIN items, f \in AllocatedIds \cup {None} :
                    move_file(i, f) =>
                        \A j \in DOMAIN items :
                            items'[j] = [items[j] EXCEPT !.parent_id = items'[j].parent_id]]_vars

\* a file that was renamed and moved under another row (files arrive at the root as "a")
C14_Witness ==
    \E i \in DOMAIN items :
        /\ items[i].type = "file" /\ items[i].name \in NewNames
        /\ items[i].parent_id \in DOMAIN items

(* C15: CreateFolder(user, name, p) of a caller that is not blocked, with p absent,
   "" or "null", adds exactly one row: a folder of that user with that name and
   parent_id = None; the strict list of the user's root afterwards contains it, and
   contains exactly one folder of that name when the root held none before. *)
RootInputs == {None, "", "null"}

SeqToSet(l) == {l[k] : k \in 1..Len(l)}

C15_CreateFolderAtRoot ==
    [][\A u \in UserIds, p \in RootInputs :
            (nextId' # nextId /\ ~check_is_blocked(u) /\ create_folder(u, "a", p)) =>
                LET new == DOMAIN items' \ DOMAIN items
                    listed == get_files(u, None, "strict")'
                    had == \E i \in DOMAIN items :
                              /\ items[i].user_id = u /\ items[i].parent_id = None
                              /\ items[i].type = "folder" /\ items[i].name = "a"
                IN /\ Cardinality(new) = 1
                   /\ \A i \in DOMAIN items : i \in DOMAIN items' /\ items'[i] = items[i]
                   /\ \A i \in new :
                         /\ items'[i].type = "folder" /\ items'[i].user_id = u
                         /\ items'[i].name = "a" /\ items'[i].parent_id = None
                         /\ i \in SeqToSet(listed)
                   /\ ~had => Cardinality({k \in 1..Len(listed) :
                                    /\ items'[listed[k]].type = "folder"
                                    /\ items'[listed[k]].name = "a"}) = 1]_vars

\* the row created last is a folder at the root of a user who has a row in the users
\* table, next to an older row of that user
C15_Witness ==
    /\ resp = "200:ok"
    /\ IdOf(nextId - 1) \in DOMAIN items
    /\ LET f == items[IdOf(nextId - 1)]
       IN /\ f.type = "folder" /\ f.parent_id = None
          /\ f.user_id \in DOMAIN users
          /\ \E i \in DOMAIN items \ {IdOf(nextId - 1)} : items[i].user_id = f.user_id

(* C16: List(user, parent, mode) returns, each once, exactly the user's items the mode
   selects: strict the items whose parent_id is parent (None for an absent parent,
   "null" or "root"), global the user's non-folders, folders the user's folders; never
   an item of another user, and the empty sequence when nothing matches.  After
   Move(Y, X) the strict list of X holds Y and the strict list of the root does not. *)
Selected(u, parent, mode) ==
    {i \in DOMAIN items :
        /\ items[i].user_id = u
        /\ \/ mode = "strict" /\ parent \in {None, "null", "root"} /\ items[i].parent_id = None
           \/ mode = "strict" /\ parent \notin {None, "null", "root"} /\ items[i].parent_id = parent
           \/ mode = "global" /\ items[i].type # "folder"
           \/ mode = "folders" /\ items[i].type = "folder"}

ListExact ==
    \A u \in UserIds, parent \in ListInputs, mode \in ListModes :
        LET l == get_files(u, parent, mode)
        IN /\ SeqToSet(l) = Selected(u, parent, mode)
           /\ Len(l) = Cardinality(Selected(u, parent, mode))

MoveListed ==
    \A y \in DOMAIN items, x \in AllocatedIds :
        move_file(y, x) =>
            /\ y \in SeqToSet(get_files(items[y].user_id, x, "strict")')
            /\ y \notin SeqToSet(get_files(items[y].user_id, None, "strict")')

C17_DeleteAllFrame ==
    [][\A u \in UserIds :
            (~check_is_blocked(u) /\ delete_all_data(u)) =>
                /\ \A i \in DOMAIN items' : items'[i].user_id # u
                /\ \A i \in DOMAIN items :
                      items[i].user_id # u => (i \in DOMAIN items' /\ items'[i] = items[i])]_vars

\* a user has no item left, and an item of the other user is still under a row that
\* is gone
C17_Witness ==
    /\ resp = "200:ok"
    /\ \E u \in DOMAIN users :
          /\ \A i \in DOMAIN items : items[i].user_id # u
          /\ \E i \in DOMAIN items :
                items[i].parent_id # None /\ items[i].parent_id \notin DOMAIN items

(* C18: a message with a document, photo, video or audio attachment from a sender who
   is not blocked adds exactly one row: a file at the root, owned by the sender, with
   the handle of the attachment first in the order document, photo, video, audio; a
   message from a blocked sender adds nothing. *)
ExpectedHandle(msg) ==
    IF msg.document # NoAttachment THEN msg.document.file_id
    ELSE IF msg.photo # NoAttachment THEN msg.photo.file_id
    ELSE IF msg.video # NoAttachment THEN msg.video.file_id
    ELSE msg.audio.file_id

C18_IngestsOneFile ==
    [][\A u \in UserIds, m \in AnyMessages :
            handle_files(u, m) =>
                IF check_is_blocked(u) THEN items' = items
                ELSE LET new == DOMAIN items' \ DOMAIN items
                     IN /\ Cardinality(new) = 1
                        /\ \A i \in DOMAIN items : i \in DOMAIN items' /\ items'[i] = items[i]
                        /\ \A i \in new :
                              /\ items'[i].type = "file" /\ items'[i].parent_id = None
                              /\ items'[i].user_id = u
                              /\ items'[i].file_id = ExpectedHandle(m)]_vars

(* C19: in every reachable state every item's user_id names a row of the users
   table. *)
C19_OwnerRowExists == \A i \in DOMAIN items : items[i].user_id \in DOMAIN users

(* C20: on a well-formed tree, when DistributeFolderContents(chat, F) is over (with
   or without failed sends) the chat was sent, or a send was tried for, every file of F's
   subtree exactly once; the name of a sub-folder is announced before anything of that
   folder is sent, and what belongs to a sub-folder follows its announcement without
   anything else in between (depth first). *)
SendOver == sstack # <<>> /\ Top(sstack).pc = "return"

\* the log entries that are below folder g: g's items and the items of its sub-folders
Below(g, k) == outbox[k].id \in Descendants(pre, g)

AttemptsAll ==
    LET F == Top(sstack).id
    IN /\ \A i \in Descendants(pre, F) :
             pre[i].type # "folder" =>
                 Cardinality({k \in 1..Len(outbox) :
                                 outbox[k].id = i /\ outbox[k].kind # "message"}) = 1
       /\ \A k \in 1..Len(outbox) : outbox[k].id \in Descendants(pre, F)

AnnouncedFirst ==
    \A g \in Descendants(pre, Top(sstack).id), k \in 1..Len(outbox) :
        Below(g, k) =>
            \E j \in 1..(k - 1) :
                /\ outbox[j].id = g /\ outbox[j].kind = "message"
                /\ \A m \in j + 1..k : Below(g, m)

C20_DistributeBestEffort ==
    (SendOver /\ Top(sstack).id \in DOMAIN pre /\ WellFormed(pre)) =>
        (AttemptsAll /\ AnnouncedFirst)

\* the same, for the distributions in which no announcement of a folder failed
DistributeWhenAnnounced ==
    (SendOver /\ Top(sstack).id \in DOMAIN pre /\ WellFormed(pre)
        /\ \A k \in 1..Len(outbox) : outbox[k].kind = "message" => outbox[k].ok) =>
        (AttemptsAll /\ AnnouncedFirst)

(* C22: a download is delivered to a chat other than the requester's only when the
   row of that chat carries the administrator's username; a call that names any
   other chat than the requester's is answered Forbidden and delivers nothing;
   a call for the requester's own chat by a blocked user who is not the
   administrator is answered Forbidden and delivers nothing. *)
C22_DownloadGate ==
    [][\A q \in DownloadInputs :
          download_file(q.user_id, q.file_id, q.file_name, q.recipient_id) =>
             LET u == q.user_id
                 target == IF q.recipient_id # 0 THEN q.recipient_id ELSE u
                 admin == target \in DOMAIN users /\ users[target].username = ADMIN_USERNAME
                 barred == /\ u \in DOMAIN users
                           /\ users[u].is_blocked
                           /\ users[u].username # ADMIN_USERNAME
             IN /\ (target # u /\ ~admin) => (resp' = "403:Access Denied" /\ outbox' = outbox)
                /\ (target = u /\ barred) => (Forbidden(resp') /\ outbox' = outbox)
                /\ resp' = "200:sent" =>
                      /\ outbox' = <<Delivered(u, target, q.file_id, q.file_name)>>
                      /\ target # u => admin]_vars

\* a user who is blocked and not the administrator has had a file delivered to the
\* administrator's chat
C22_Witness ==
    /\ resp = "200:sent"
    /\ outbox # <<>>
    /\ outbox[1].to # outbox[1].by
    /\ outbox[1].to \in DOMAIN users /\ users[outbox[1].to].username = ADMIN_USERNAME
    /\ outbox[1].by \in DOMAIN users
    /\ users[outbox[1].by].is_blocked /\ users[outbox[1].by].username # ADMIN_USERNAME

\* the folders a call stack is inside, outermost first
Entered(stack, field) == [k \in 1..Len(stack) |-> stack[k][field]]
NoReentry(q) == \A j, k \in 1..Len(q) : j # k => q[j] # q[k]

(* C21: the recursive operations end on every table the requests build (moves and
   created folders included): no call of recursive_del, copy_folder_recursive or
   send_folder_contents enters a folder it is already inside or reaches the
   recursion limit, and no call of get_folder_tree_text ends in RecursionError. *)
C21_RecursionEnds ==
    /\ NoReentry(Entered(rstack, "id")) /\ Len(rstack) < RecursionLimit
    /\ NoReentry(Entered(cstack, "src")) /\ Len(cstack) < RecursionLimit
    /\ NoReentry(Entered(sstack, "id")) /\ Len(sstack) < RecursionLimit
    /\ resp # "chat:RecursionError"

\* on a table without a parent_id cycle the recursive operations do end
RecursionEndsOnForest == C1_NoParentCycle => C21_RecursionEnds
=============================================================================
